---- MODULE Spec2Model ----
(***************************************************************************)
(* Model of pyqt_app_info: ToolSpec, ToolResult and ToolRegistry           *)
(* (register, detect, detect_all, _detect_one) of tools.py, detect_frozen  *)
(* and resolve_code_location of _compat.py, gather_info and summary_lines  *)
(* of info.py, together with the stdlib primitives they call:              *)
(* shutil.which, Path.is_file, subprocess.run and platform.platform.       *)
(*                                                                         *)
(* A call of detect, detect_all or gather_info is not one step.  It reads  *)
(* the search path, then the disk, then waits for the version command,     *)
(* and between two of these the search path and the disk can change and    *)
(* another thread can register.  Each read is a step of its own; the       *)
(* statements between two reads touch only local variables and belong to   *)
(* the step of the read before them.                                       *)
(*                                                                         *)
(* Python strings that the code only passes around (names, commands,       *)
(* flags, paths) are TLA+ strings.  The text captured from the version     *)
(* command is a sequence of characters, because the code strips and        *)
(* splits it.  Optional[T] is a sequence of length 0 (None) or 1.          *)
(***************************************************************************)
EXTENDS Integers, Sequences, FiniteSets, TLC

VARIABLES
    specs,      \* ToolRegistry._specs: insertion-ordered dict, as the sequence of its values
    on_path,    \* environment: the commands the search path resolves
    files,      \* environment: what each fallback location is on disk
    op,         \* the operation the program called last: in progress, or over
    arg,        \* its argument
    ret,        \* its return value: None, or Some(value)
    raised,     \* the exception that left it: None, or Some(exception type)
    calls,      \* the calls it made so far to which / is_file / run, in order, with their outcomes
    frame,      \* its local variables, and the statement it is at
    sys,        \* environment: the attributes of the sys module the program reads
    platform_cache, \* platform._platform_cache: None, or Some(the string platform() returned)
    threads,    \* the detect calls in progress on other threads, each with its local variables
    prev        \* the detect call before the last one: None, or Some(its name and outcome)

vars == <<specs, on_path, files, op, arg, ret, raised, calls, frame, sys, platform_cache,
          threads, prev>>

----------------------------------------------------------------------------
(* Bounds and input sets *)

MaxFallbacks == 2
MaxStdoutLen == 4

Names == {"", "A"}
UnknownNames == {"nope"}
Commands == {"a", "b"}
VersionFlags == {"--version", "-ver"}
FallbackFiles == {"/opt/a", "/opt/b"}
DefaultTimeout == 5
StdoutChars == {"X", "Y", " ", "\n"}
Whitespace == {" ", "\n"}

None == <<>>
Some(x) == <<x>>

SeqsUpTo(S, n) == UNION {[1..k -> S] : k \in 0..n}

\* the value shutil.which gives for a command that is on the search path
BinPath(cmd) == IF cmd = "a" THEN "/usr/bin/a" ELSE "/usr/bin/b"

\* the sys module of a program run from source by the interpreter
SourceSys ==
    [frozen |-> None, meipass |-> None, executable |-> "/usr/bin/python3",
     version |-> <<"3.11.6", "(main)">>]

\* no detect call in progress on another thread
NoThreads == <<>>

----------------------------------------------------------------------------
(* Data records *)

ToolSpec(name, command, version_flag, fallback_paths, version_timeout) ==
    [name |-> name, command |-> command, version_flag |-> version_flag,
     fallback_paths |-> fallback_paths, version_timeout |-> version_timeout]

ToolResult(name, path, version, status) ==
    [name |-> name, path |-> path, version |-> version, status |-> status]

\* the specifications given to register: version_flag and version_timeout left at their defaults
ToolSpecs ==
    {ToolSpec(n, c, "--version", fb, DefaultTimeout) :
        n \in Names, c \in Commands, fb \in {<<>>, <<"/opt/a">>}}

\* those of them that have no fallback path
PlainSpecs == {spec \in ToolSpecs : spec.fallback_paths = <<>>}

\* the specifications a single detection is run on
DetectSpecs ==
    {ToolSpec("A", c, f, fb, DefaultTimeout) :
        c \in Commands, f \in VersionFlags, fb \in SeqsUpTo(FallbackFiles, MaxFallbacks)}

\* the specifications the version text is read for
VersionSpecs == {ToolSpec("A", "a", "-ver", fb, DefaultTimeout) : fb \in {<<>>, <<"/opt/a">>}}

\* the texts a version command prints
StdoutTexts == SeqsUpTo(StdoutChars, MaxStdoutLen)
SampleStdout == {<<"X", "\n">>}

----------------------------------------------------------------------------
(* The primitives *)

FileStates == {"file", "missing", "denied"}

\* a disk with none of the fallback locations
NoFiles == [f \in FallbackFiles |-> "missing"]

\* shutil.which(cmd)
which(cmd) == IF cmd \in on_path THEN Some(BinPath(cmd)) ELSE None

\* Path(candidate).is_file(): TRUE, FALSE, or the OSError pathlib re-raises
is_file(candidate) ==
    CASE files[candidate] = "file" -> [raises |-> None, value |-> TRUE]
      [] files[candidate] = "missing" -> [raises |-> None, value |-> FALSE]
      [] OTHER -> [raises |-> Some("PermissionError"), value |-> FALSE]

\* what subprocess.run(..., capture_output=True, text=True, timeout=t) can do
Completed(returncode, stdout) ==
    [kind |-> "completed", returncode |-> returncode, stdout |-> stdout]

RunOutcomes(texts) ==
    {Completed(rc, s) : rc \in {0, 1}, s \in texts}
        \cup {[kind |-> k] : k \in {"TimeoutExpired", "OSError", "ValueError"}}

\* what the uname -p that platform.platform() runs can do: print the processor
\* (stdout is the word printed, without the newline), exit non-zero, which
\* check=True turns into CalledProcessError, or not be there
UnameOutcomes ==
    {Completed(0, "x86_64"), Completed(0, "athlon"), Completed(0, "unknown")}
        \cup {[kind |-> k] : k \in {"CalledProcessError", "OSError"}}

----------------------------------------------------------------------------
(* Text of the version output *)

IsSpace(c) == c \in Whitespace

\* str.lstrip()
RECURSIVE lstrip(_)
lstrip(s) ==
    IF s # <<>> /\ IsSpace(Head(s)) THEN lstrip(Tail(s)) ELSE s

\* str.rstrip()
RECURSIVE rstrip(_)
rstrip(s) ==
    IF s # <<>> /\ IsSpace(s[Len(s)]) THEN rstrip(SubSeq(s, 1, Len(s) - 1)) ELSE s

\* str.strip()
strip(s) == rstrip(lstrip(s))

\* s.split("\n")[0]: the text before the first newline, all of it when there is none
RECURSIVE split_first(_)
split_first(s) ==
    IF s = <<>> \/ Head(s) = "\n" THEN <<>> ELSE <<Head(s)>> \o split_first(Tail(s))

\* proc.stdout.strip().split("\n")[0]
version_of(stdout) == split_first(strip(stdout))

----------------------------------------------------------------------------
(* ToolRegistry._detect_one *)

WhichCall(cmd, out) == [fn |-> "which", args |-> <<cmd>>, out |-> out]
IsFileCall(candidate, out) == [fn |-> "is_file", args |-> <<candidate>>, out |-> out]
RunCall(path, flag, timeout, out) ==
    [fn |-> "run", args |-> <<path, flag>>, timeout |-> timeout, out |-> out]
\* subprocess.check_output(["uname", "-p"], ...) is subprocess.run with check=True
UnameCall(out) ==
    [fn |-> "run", args |-> <<"uname", "-p">>, timeout |-> None, out |-> out]

Outcome(r, e, c) == [ret |-> r, raised |-> e, calls |-> c]

\* for candidate in spec.fallback_paths: if Path(candidate).is_file(): path = candidate; break
\* from entry i on; gives the path found (or None), the exception that ended the loop
\* (or None) and the is_file calls made
RECURSIVE probe_fallbacks(_, _)
probe_fallbacks(fallback_paths, i) ==
    IF i > Len(fallback_paths)
    THEN [path |-> None, raised |-> None, calls |-> <<>>]
    ELSE LET candidate == fallback_paths[i]
             chk == is_file(candidate)
             call == IsFileCall(candidate, chk)
         IN  IF chk.raises # None
             THEN [path |-> None, raised |-> chk.raises, calls |-> <<call>>]
             ELSE IF chk.value
             THEN [path |-> Some(candidate), raised |-> None, calls |-> <<call>>]
             ELSE LET rest == probe_fallbacks(fallback_paths, i + 1)
                  IN  [rest EXCEPT !.calls = <<call>> \o rest.calls]

\* mutant: a non-zero exit still reports the text the command printed
probe_version_keeps_output(spec, path, r) ==
    LET call == RunCall(path, spec.version_flag, spec.version_timeout, r)
    IN  IF r.kind = "completed"
        THEN Outcome(Some(ToolResult(spec.name, Some(path), Some(version_of(r.stdout)),
                                     IF r.returncode = 0 THEN "available" ELSE "error")),
                     None, <<call>>)
        ELSE IF r.kind \in {"TimeoutExpired", "OSError"}
        THEN Outcome(Some(ToolResult(spec.name, Some(path), None, "error")),
                     None, <<call>>)
        ELSE Outcome(None, Some(r.kind), <<call>>)

\* mutant: the except clause names OSError alone
probe_version_timeout_escapes(spec, path, r) ==
    LET call == RunCall(path, spec.version_flag, spec.version_timeout, r)
    IN  IF r.kind = "completed"
        THEN IF r.returncode = 0
             THEN Outcome(Some(ToolResult(spec.name, Some(path),
                                          Some(version_of(r.stdout)), "available")),
                          None, <<call>>)
             ELSE Outcome(Some(ToolResult(spec.name, Some(path), None, "error")),
                          None, <<call>>)
        ELSE IF r.kind = "OSError"
        THEN Outcome(Some(ToolResult(spec.name, Some(path), None, "error")),
                     None, <<call>>)
        ELSE Outcome(None, Some(r.kind), <<call>>)

\* mutant: a timeout is answered by running the command once more
probe_version_retries(spec, path, r) ==
    LET call == RunCall(path, spec.version_flag, spec.version_timeout, r)
    IN  IF r.kind = "completed"
        THEN IF r.returncode = 0
             THEN Outcome(Some(ToolResult(spec.name, Some(path),
                                          Some(version_of(r.stdout)), "available")),
                          None, <<call>>)
             ELSE Outcome(Some(ToolResult(spec.name, Some(path), None, "error")),
                          None, <<call>>)
        ELSE IF r.kind = "TimeoutExpired"
        THEN Outcome(Some(ToolResult(spec.name, Some(path), None, "error")),
                     None, <<call, call>>)
        ELSE IF r.kind = "OSError"
        THEN Outcome(Some(ToolResult(spec.name, Some(path), None, "error")),
                     None, <<call>>)
        ELSE Outcome(None, Some(r.kind), <<call>>)

\* the try block: subprocess.run, the test of returncode, the except clause
probe_version(spec, path, r) ==
    LET call == RunCall(path, spec.version_flag, spec.version_timeout, r)
    IN  IF r.kind = "completed"
        THEN IF r.returncode = 0
             THEN Outcome(Some(ToolResult(spec.name, Some(path),
                                          Some(version_of(r.stdout)), "available")),
                          None, <<call>>)
             ELSE Outcome(Some(ToolResult(spec.name, Some(path), None, "error")),
                          None, <<call>>)
        ELSE IF r.kind \in {"TimeoutExpired", "OSError"}
        THEN Outcome(Some(ToolResult(spec.name, Some(path), None, "error")),
                     None, <<call>>)
        ELSE Outcome(None, Some(r.kind), <<call>>)

\* _detect_one(spec) from its first statement to its last with the search path and
\* the disk as they are, where r is what subprocess.run does if it is called
_detect_one(spec, r) ==
    LET found == which(spec.command)
        first == <<WhichCall(spec.command, found)>>
        fb == IF found = None
              THEN probe_fallbacks(spec.fallback_paths, 1)
              ELSE [path |-> found, raised |-> None, calls |-> <<>>]
    IN  IF fb.raised # None
        THEN Outcome(None, fb.raised, first \o fb.calls)
        ELSE IF fb.path = None
        THEN Outcome(Some(ToolResult(spec.name, None, None, "not_found")),
                     None, first \o fb.calls)
        ELSE LET v == probe_version(spec, fb.path[1], r)
             IN  [v EXCEPT !.calls = first \o fb.calls \o v.calls]

----------------------------------------------------------------------------
(* ToolRegistry._specs *)

RegisteredNames == {specs[i].name : i \in DOMAIN specs}

IndexOf(d, name) == CHOOSE i \in DOMAIN d : d[i].name = name

\* self._specs[name]
lookup(d, name) == d[IndexOf(d, name)]

\* mutant: self._specs.setdefault(spec.name, spec), a present key keeps its old value
dict_setdefault(d, spec) ==
    IF \E i \in DOMAIN d : d[i].name = spec.name THEN d ELSE Append(d, spec)

\* mutant: a present key is deleted and added again, which moves it to the end
dict_set_moves_to_end(d, spec) ==
    Append(SelectSeq(d, LAMBDA e : e.name # spec.name), spec)

\* self._specs[spec.name] = spec: a present key keeps its position in the dict
dict_set(d, spec) ==
    IF \E i \in DOMAIN d : d[i].name = spec.name
    THEN [d EXCEPT ![IndexOf(d, spec.name)] = spec]
    ELSE Append(d, spec)

----------------------------------------------------------------------------
(* _compat.py: is the program a bundled executable, and where does its code live *)

\* Python values an attribute of sys may hold
PyFalse == [type |-> "bool", repr |-> "False"]
PyTrue == [type |-> "bool", repr |-> "True"]
PyStr(s) == [type |-> "str", repr |-> s]

\* bool(x): False and the empty string are false
bool(x) == IF x.type = "bool" THEN x.repr = "True" ELSE x.repr # ""

\* str(x)
str(x) == x.repr

\* getattr(sys, name, default), for an attribute that is set (Some) or not (None)
getattr(attribute, default) == IF attribute = None THEN default ELSE attribute[1]

\* what sys.frozen and sys._MEIPASS hold under the interpreter, cx_Freeze,
\* py2exe and PyInstaller; None is an attribute that has no value
FrozenValues == {None, Some(PyFalse), Some(PyTrue), Some(PyStr("")), Some(PyStr("console_exe"))}
MeipassValues == {None, Some(PyStr("")), Some(PyStr("/tmp/_MEI"))}
Executables == {"/usr/bin/python3", "/opt/app/app"}

SysStates ==
    [frozen : FrozenValues, meipass : MeipassValues, executable : Executables,
     version : {<<"3.11.6", "(main)">>}]

\* platform.platform() on a Linux x86_64 machine, uname -p having done u: the
\* processor is left out when it is empty, unknown or the same as the machine
platform(u) ==
    LET processor == IF u.kind = "completed" THEN u.stdout ELSE ""
    IN  IF processor \in {"", "unknown", "x86_64"}
        THEN "Linux-6.1-x86_64-with-glibc2.36"
        ELSE "Linux-6.1-x86_64-" \o processor \o "-with-glibc2.36"

FrozenState(is_frozen, bundler, executable_path, meipass) ==
    [is_frozen |-> is_frozen, bundler |-> bundler, executable_path |-> executable_path,
     meipass |-> meipass]

\* mutant: an empty _MEIPASS counts as none
detect_frozen_meipass_truthy ==
    LET frozen == getattr(sys.frozen, PyFalse)
        meipass == sys.meipass
        bundler == IF bool(frozen)
                   THEN IF meipass # None /\ bool(meipass[1])
                        THEN Some("PyInstaller") ELSE Some("cx_Freeze")
                   ELSE None
    IN  FrozenState(bool(frozen), bundler, sys.executable,
                    IF meipass # None THEN Some(str(meipass[1])) ELSE None)

detect_frozen ==
    LET frozen == getattr(sys.frozen, PyFalse)
        meipass == sys.meipass
        bundler == IF bool(frozen)
                   THEN IF meipass # None THEN Some("PyInstaller") ELSE Some("cx_Freeze")
                   ELSE None
    IN  FrozenState(bool(frozen), bundler, sys.executable,
                    IF meipass # None THEN Some(str(meipass[1])) ELSE None)

\* the files a caller passes as caller_file, the working directory, and the one
\* symbolic link on the disk
Cwd == "/cwd"
AbsoluteFiles == {"/src/main.py", "/link/main.py"}
CallerFiles == AbsoluteFiles \cup {"main.py", ""}
readlink(p) == IF p = "/link/main.py" THEN "/src/main.py" ELSE p

\* Path(p).resolve(): made absolute against the working directory, links followed
resolve(p) ==
    IF p = "" THEN Cwd
    ELSE IF p \in AbsoluteFiles THEN readlink(p)
    ELSE readlink(Cwd \o "/" \o p)

\* mutant: a caller_file wins over the frozen state
resolve_code_location_caller_first(caller_file) ==
    LET state == detect_frozen
    IN  IF caller_file # None THEN resolve(caller_file[1])
        ELSE state.executable_path

resolve_code_location(caller_file) ==
    LET state == detect_frozen
    IN  IF state.is_frozen THEN state.executable_path
        ELSE IF caller_file # None THEN resolve(caller_file[1])
        ELSE state.executable_path

----------------------------------------------------------------------------
(* info.py: the report *)

AppIdentity(name, short_name, version, commit_date, author, description, features) ==
    [name |-> name, short_name |-> short_name, version |-> version,
     commit_date |-> commit_date, author |-> author, description |-> description,
     features |-> features]

ExecutionInfo(python_executable, python_version, code_location, os_platform, is_frozen, execution_mode, bundler) ==
    [python_executable |-> python_executable, python_version |-> python_version,
     code_location |-> code_location, os_platform |-> os_platform, is_frozen |-> is_frozen,
     execution_mode |-> execution_mode, bundler |-> bundler]

AppInfo(identity, execution, tools) ==
    [identity |-> identity, execution |-> execution, tools |-> tools]

\* an identity with the name alone, and one with every field
Identities ==
    {AppIdentity("App", "", "", "", "", "", <<>>),
     AppIdentity("My App", "MA", "1.0", "2025-01-01", "Dev", "A test app", <<"feat1">>)}

\* the characters of a version as one string
RECURSIVE join(_)
join(chars) == IF chars = <<>> THEN "" ELSE Head(chars) \o join(Tail(chars))

\* an optional string inside an f-string
format(x) == IF x = None THEN "None" ELSE x[1]

\* the body of the loop over self.tools
tool_line(tool) ==
    IF tool.status = "available"
    THEN "  " \o tool.name \o ":  v"
              \o (IF tool.version = None THEN "None" ELSE join(tool.version[1]))
              \o "  (" \o format(tool.path) \o ")"
    ELSE IF tool.path # None /\ tool.path[1] # ""
    THEN "  " \o tool.name \o ":  found but version unavailable  (" \o tool.path[1] \o ")"
    ELSE "  " \o tool.name \o ":  not found"

summary_lines(info) ==
    LET ident == info.identity
        exe == info.execution
        title == IF ident.short_name # ""
                 THEN ident.name \o " [ " \o ident.short_name \o " ]"
                 ELSE ident.name
    IN  <<title>>
        \o (IF ident.version # "" THEN <<"  Version:      " \o ident.version>> ELSE <<>>)
        \o (IF ident.commit_date # "" THEN <<"  Commit Date:  " \o ident.commit_date>> ELSE <<>>)
        \o (IF ident.description # "" THEN <<"  " \o ident.description>> ELSE <<>>)
        \o <<"",
             "  Execution:    " \o exe.execution_mode,
             "  Code:         " \o exe.code_location,
             "  Python:       " \o exe.python_executable,
             "  Python Ver:   " \o exe.python_version,
             "  OS:           " \o exe.os_platform>>
        \o [k \in DOMAIN info.tools |-> tool_line(info.tools[k])]

\* mutant: only the tools that were found are reported
gather_return_found_only(identity, execution, tools) ==
    AppInfo(identity, execution, SelectSeq(tools, LAMBDA t : t.status # "not_found"))

\* return AppInfo(identity=identity, execution=execution, tools=tools)
gather_return(identity, execution, tools) == AppInfo(identity, execution, tools)

----------------------------------------------------------------------------
(* The calls of the program, statement by statement *)

\* the local variables of a call: the statement it is at (done: it is over),
\* the dict iterator of detect_all (next position k, size n of the dict when the
\* iterator was made), spec and path of _detect_one, the position i in
\* fallback_paths, the results the comprehension has collected, and the
\* ExecutionInfo gather_info has built
Idle ==
    [pc |-> "done", k |-> 0, n |-> 0, spec |-> None, path |-> None, i |-> 1,
     results |-> <<>>, execution |-> None]

\* no call is in progress
Rest == frame.pc = "done"

\* what is left of the local variables when the call is over, exc having left it
\* (None: it returned): the specification detect looked up, and the tools of
\* gather_info, which are the list detect_all handed to it, and [] when
\* detect_all raised
Left(exc) ==
    [Idle EXCEPT !.spec = IF op = "detect" THEN frame.spec ELSE None,
                 !.results = IF op = "gather_info" /\ exc = None THEN frame.results
                             ELSE <<>>]

\* mutant: the comprehension puts each result in front of the ones it has
leave_prepending(res, exc, cs) ==
    /\ calls' = calls \o cs
    /\ IF exc # None
       THEN /\ raised' = exc
            /\ ret' = None
            /\ frame' = Left(exc)
       ELSE IF op = "detect"
       THEN /\ ret' = res
            /\ raised' = None
            /\ frame' = Left(None)
       ELSE /\ frame' = [frame EXCEPT !.results = <<res[1]>> \o @, !.pc = "next",
                                      !.spec = None, !.path = None, !.i = 1]
            /\ UNCHANGED <<ret, raised>>
    /\ UNCHANGED <<specs, on_path, files, op, arg>>

\* _detect_one is over, having made the calls cs last: it raises exc, which
\* leaves detect, detect_all and gather_info as well, or it returns res, to the
\* caller of detect or into the list of the comprehension
leave(res, exc, cs) ==
    /\ calls' = calls \o cs
    /\ IF exc # None
       THEN /\ raised' = exc
            /\ ret' = None
            /\ frame' = Left(exc)
       ELSE IF op = "detect"
       THEN /\ ret' = res
            /\ raised' = None
            /\ frame' = Left(None)
       ELSE /\ frame' = [frame EXCEPT !.results = Append(@, res[1]), !.pc = "next",
                                      !.spec = None, !.path = None, !.i = 1]
            /\ UNCHANGED <<ret, raised>>
    /\ UNCHANGED <<specs, on_path, files, op, arg>>

\* path = shutil.which(spec.command)
shutil_which ==
    LET spec == frame.spec[1]
        found == which(spec.command)
    IN  /\ frame.pc = "which"
        /\ calls' = Append(calls, WhichCall(spec.command, found))
        /\ frame' = [frame EXCEPT !.path = found,
                                  !.pc = IF found = None THEN "fallback" ELSE "run"]
        /\ UNCHANGED <<specs, on_path, files, op, arg, ret, raised>>

\* mutant: the first candidate is taken without asking whether it is a file
path_is_file_unchecked ==
    LET spec == frame.spec[1]
        fallback_paths == spec.fallback_paths
    IN  /\ frame.pc = "fallback"
        /\ IF frame.i > Len(fallback_paths)
           THEN leave(Some(ToolResult(spec.name, None, None, "not_found")), None, <<>>)
           ELSE /\ frame' = [frame EXCEPT !.path = Some(fallback_paths[frame.i]), !.pc = "run"]
                /\ UNCHANGED <<specs, on_path, files, op, arg, ret, raised, calls>>

\* mutant: the loop has no break, so the last existing candidate wins
path_is_file_no_break ==
    LET spec == frame.spec[1]
        fallback_paths == spec.fallback_paths
    IN  /\ frame.pc = "fallback"
        /\ IF frame.i > Len(fallback_paths)
           THEN IF frame.path = None
                THEN leave(Some(ToolResult(spec.name, None, None, "not_found")), None, <<>>)
                ELSE /\ frame' = [frame EXCEPT !.pc = "run"]
                     /\ UNCHANGED <<specs, on_path, files, op, arg, ret, raised, calls>>
           ELSE LET candidate == fallback_paths[frame.i]
                    chk == is_file(candidate)
                IN  IF chk.raises # None
                    THEN leave(None, chk.raises, <<IsFileCall(candidate, chk)>>)
                    ELSE /\ calls' = Append(calls, IsFileCall(candidate, chk))
                         /\ frame' = IF chk.value
                                     THEN [frame EXCEPT !.path = Some(candidate), !.i = @ + 1]
                                     ELSE [frame EXCEPT !.i = @ + 1]
                         /\ UNCHANGED <<specs, on_path, files, op, arg, ret, raised>>

\* one turn of "for candidate in spec.fallback_paths: if Path(candidate).is_file():
\* path = candidate; break", or, the loop being over with no path, the return of
\* not_found
path_is_file ==
    LET spec == frame.spec[1]
        fallback_paths == spec.fallback_paths
    IN  /\ frame.pc = "fallback"
        /\ IF frame.i > Len(fallback_paths)
           THEN leave(Some(ToolResult(spec.name, None, None, "not_found")), None, <<>>)
           ELSE LET candidate == fallback_paths[frame.i]
                    chk == is_file(candidate)
                IN  IF chk.raises # None
                    THEN leave(None, chk.raises, <<IsFileCall(candidate, chk)>>)
                    ELSE /\ calls' = Append(calls, IsFileCall(candidate, chk))
                         /\ frame' = IF chk.value
                                     THEN [frame EXCEPT !.path = Some(candidate), !.pc = "run"]
                                     ELSE [frame EXCEPT !.i = @ + 1]
                         /\ UNCHANGED <<specs, on_path, files, op, arg, ret, raised>>

\* the try block: subprocess.run does r, then the test of returncode or the
\* except clause ends _detect_one
subprocess_run(r) ==
    LET v == probe_version(frame.spec[1], frame.path[1], r)
    IN  /\ frame.pc = "run"
        /\ leave(v.ret, v.raised, v.calls)

\* mutant: self._specs.get(name), an unknown name is reported as a tool not found
detect_or_default(name) ==
    /\ Rest
    /\ op' = "detect"
    /\ arg' = Some(name)
    /\ raised' = None
    /\ calls' = <<>>
    /\ IF name \in RegisteredNames
       THEN /\ ret' = None
            /\ frame' = [Idle EXCEPT !.pc = "which", !.spec = Some(lookup(specs, name))]
       ELSE /\ ret' = Some(ToolResult(name, None, None, "not_found"))
            /\ frame' = Idle
    /\ UNCHANGED <<specs, on_path, files>>

\* mutant: a result once obtained for a name is kept and returned again
detect_cached(name) ==
    LET kept == IF op = "detect" /\ arg = Some(name) /\ ret # None THEN ret
                ELSE IF prev # None /\ prev[1].arg = Some(name) THEN prev[1].ret
                ELSE None
    IN  /\ Rest
        /\ op' = "detect"
        /\ arg' = Some(name)
        /\ calls' = <<>>
        /\ IF name \notin RegisteredNames
           THEN /\ ret' = None
                /\ raised' = Some("KeyError")
                /\ frame' = Idle
           ELSE IF kept # None
           THEN /\ ret' = kept
                /\ raised' = None
                /\ frame' = [Idle EXCEPT !.spec = Some(lookup(specs, name))]
           ELSE /\ ret' = None
                /\ raised' = None
                /\ frame' = [Idle EXCEPT !.pc = "which", !.spec = Some(lookup(specs, name))]
        /\ UNCHANGED <<specs, on_path, files>>

\* detect(name) is called: spec = self._specs[name] raises KeyError, or
\* _detect_one(spec) begins
detect(name) ==
    /\ Rest
    /\ op' = "detect"
    /\ arg' = Some(name)
    /\ ret' = None
    /\ calls' = <<>>
    /\ IF name \in RegisteredNames
       THEN /\ raised' = None
            /\ frame' = [Idle EXCEPT !.pc = "which", !.spec = Some(lookup(specs, name))]
       ELSE /\ raised' = Some("KeyError")
            /\ frame' = Idle
    /\ UNCHANGED <<specs, on_path, files>>

\* mutant: the dict is emptied when the walk begins
detect_all_draining ==
    /\ Rest
    /\ op' = "detect_all"
    /\ arg' = None
    /\ ret' = None
    /\ raised' = None
    /\ calls' = <<>>
    /\ frame' = [Idle EXCEPT !.pc = "next", !.k = 1, !.n = 0]
    /\ specs' = <<>>
    /\ UNCHANGED <<on_path, files>>

\* detect_all() is called: the comprehension makes its iterator over
\* self._specs.values()
detect_all ==
    /\ Rest
    /\ op' = "detect_all"
    /\ arg' = None
    /\ ret' = None
    /\ raised' = None
    /\ calls' = <<>>
    /\ frame' = [Idle EXCEPT !.pc = "next", !.k = 1, !.n = Len(specs)]
    /\ UNCHANGED <<specs, on_path, files>>

\* the comprehension asks its iterator for the next specification: the iterator
\* raises RuntimeError when the dict has changed size since it was made, gives
\* the value now held at its position, or is exhausted, and then detect_all
\* returns the list, which gather_info puts into the AppInfo it returns
next_spec ==
    /\ frame.pc = "next"
    /\ IF Len(specs) # frame.n
       THEN /\ raised' = Some("RuntimeError")
            /\ ret' = None
            /\ frame' = Left(Some("RuntimeError"))
       ELSE IF frame.k > Len(specs)
       THEN /\ ret' = Some(IF op = "gather_info"
                           THEN gather_return(arg[1].identity, frame.execution[1],
                                              frame.results)
                           ELSE frame.results)
            /\ raised' = None
            /\ frame' = Left(None)
       ELSE /\ frame' = [frame EXCEPT !.spec = Some(specs[frame.k]), !.k = @ + 1,
                                      !.pc = "which"]
            /\ UNCHANGED <<ret, raised>>
    /\ UNCHANGED <<specs, on_path, files, op, arg, calls>>

\* register(spec), by the program between two of its calls, or by another
\* thread while a call is in progress
register(spec) ==
    /\ specs' = dict_set(specs, spec)
    /\ IF Rest
       THEN /\ op' = "register"
            /\ arg' = Some(spec)
            /\ ret' = None
            /\ raised' = None
            /\ calls' = <<>>
       ELSE UNCHANGED <<op, arg, ret, raised, calls>>
    /\ frame' = IF Rest THEN Idle ELSE frame
    /\ UNCHANGED <<on_path, files>>

\* the world outside the program: the search path and the disk change, between
\* two calls or during one
environment(p, f) ==
    /\ on_path' = p
    /\ files' = f
    /\ UNCHANGED <<specs, op, arg, ret, raised, calls, frame>>

\* gather_info(identity, registry=registry, caller_file=caller_file) is called
gather_info(identity, registry, caller_file) ==
    /\ Rest
    /\ op' = "gather_info"
    /\ arg' = Some([identity |-> identity, registry |-> registry,
                    caller_file |-> caller_file])
    /\ ret' = None
    /\ raised' = None
    /\ calls' = <<>>
    /\ frame' = [Idle EXCEPT !.pc = "platform"]
    /\ UNCHANGED <<specs, on_path, files, platform_cache>>

\* frozen_state = detect_frozen() and execution = ExecutionInfo(...), built from
\* sys and from platform.platform(), which has its string already or waits for
\* uname -p, which does u; then tools = [], and with no registry the return
platform_platform(u) ==
    LET identity == arg[1].identity
        frozen_state == detect_frozen
        os_platform == IF platform_cache # None THEN platform_cache[1] ELSE platform(u)
        execution == ExecutionInfo(sys.executable, sys.version[1],
                                   resolve_code_location(arg[1].caller_file), os_platform,
                                   frozen_state.is_frozen,
                                   IF frozen_state.is_frozen THEN "Compiled executable"
                                                             ELSE "Python source",
                                   frozen_state.bundler)
    IN  /\ frame.pc = "platform"
        /\ calls' = IF platform_cache # None THEN calls ELSE Append(calls, UnameCall(u))
        /\ platform_cache' = Some(os_platform)
        /\ IF arg[1].registry = None
           THEN /\ ret' = Some(gather_return(identity, execution, <<>>))
                /\ frame' = Left(None)
           ELSE /\ ret' = None
                /\ frame' = [frame EXCEPT !.pc = "registry", !.execution = Some(execution)]
        /\ UNCHANGED <<specs, on_path, files, op, arg, raised>>

\* tools = registry.detect_all() begins: the comprehension makes its iterator
\* over self._specs.values().  The registry is the one in specs.
registry_detect_all ==
    /\ frame.pc = "registry"
    /\ frame' = [frame EXCEPT !.pc = "next", !.k = 1, !.n = Len(specs)]
    /\ UNCHANGED <<specs, on_path, files, op, arg, ret, raised, calls, platform_cache>>
----------------------------------------------------------------------------
(* Specifications *)

\* what the calls of the registry, the search path and the disk leave alone
Others == <<sys, platform_cache, threads, prev>>

Register ==
    /\ \E spec \in PlainSpecs : register(spec)
    /\ UNCHANGED Others
Detect ==
    /\ \E name \in Names \cup UnknownNames : detect(name)
    /\ UNCHANGED Others
DetectAll ==
    /\ detect_all
    /\ UNCHANGED Others
NextSpec ==
    /\ next_spec
    /\ UNCHANGED Others
ShutilWhich ==
    /\ shutil_which
    /\ UNCHANGED Others
PathIsFile ==
    /\ path_is_file
    /\ UNCHANGED Others
SubprocessRun ==
    /\ \E r \in RunOutcomes(SampleStdout) : subprocess_run(r)
    /\ UNCHANGED Others
Environment ==
    /\ \E p \in SUBSET Commands, f \in [FallbackFiles -> FileStates] : environment(p, f)
    /\ UNCHANGED Others
\* the search path alone changes
SearchPath ==
    /\ \E p \in SUBSET Commands : environment(p, files)
    /\ UNCHANGED Others

Init ==
    /\ specs = <<>>
    /\ on_path \in SUBSET Commands
    /\ files = NoFiles
    /\ op = "init"
    /\ arg = None
    /\ ret = None
    /\ raised = None
    /\ calls = <<>>
    /\ frame = Idle
    /\ sys = SourceSys
    /\ platform_cache = None
    /\ threads = NoThreads
    /\ prev = None

Next ==
    \/ Register \/ Detect \/ DetectAll
    \/ NextSpec \/ ShutilWhich \/ PathIsFile \/ SubprocessRun
    \/ SearchPath

\* a program that registers tools without fallback paths and detects them, while
\* the search path changes and another thread registers
Spec == Init /\ [][Next]_vars

\* a registry holding one specification out of pool, in any environment
Registered(pool) ==
    /\ specs \in {<<spec>> : spec \in pool}
    /\ on_path \in SUBSET Commands
    /\ files \in [FallbackFiles -> FileStates]
    /\ op = "register"
    /\ arg = Some(specs[1])
    /\ ret = None
    /\ raised = None
    /\ calls = <<>>
    /\ frame = Idle
    /\ sys = SourceSys
    /\ platform_cache = None
    /\ threads = NoThreads
    /\ prev = None

InitDetect == Registered(DetectSpecs)
NextDetect ==
    \/ Detect \/ DetectAll
    \/ NextSpec \/ ShutilWhich \/ PathIsFile \/ SubprocessRun
    \/ Environment

\* detection of one specification of any shape, while the search path and the
\* disk change
SpecDetect == InitDetect /\ [][NextDetect]_vars

\* the tool is command a, with or without the fallback /opt/a, which exists or not
InitVersion ==
    /\ Registered(VersionSpecs)
    /\ on_path \subseteq {"a"}
    /\ files["/opt/a"] # "denied"
    /\ files["/opt/b"] = "missing"
DetectVersion ==
    /\ op = "register"
    /\ detect("A")
    /\ UNCHANGED Others
SubprocessRunVersion ==
    /\ \E r \in RunOutcomes(StdoutTexts) : subprocess_run(r)
    /\ UNCHANGED Others
EnvironmentVersion ==
    /\ \E p \in SUBSET {"a"}, a \in {"file", "missing"} :
            environment(p, [files EXCEPT !["/opt/a"] = a])
    /\ UNCHANGED Others
NextVersion ==
    \/ DetectVersion
    \/ ShutilWhich \/ PathIsFile \/ SubprocessRunVersion
    \/ EnvironmentVersion

\* one detection of a tool that prints any text
SpecVersion == InitVersion /\ [][NextVersion]_vars

\* the most recent detect call that is over, before the step being taken
LastDetect ==
    IF op = "detect" /\ Rest THEN Some([arg |-> arg, ret |-> ret, raised |-> raised]) ELSE prev

DetectAgain ==
    /\ \E name \in Names \cup UnknownNames : detect(name)
    /\ prev' = LastDetect
    /\ UNCHANGED <<sys, platform_cache, threads>>

InitRepeat == Registered({spec \in ToolSpecs : spec.name = "A"})
NextRepeat ==
    \/ DetectAgain
    \/ ShutilWhich \/ PathIsFile \/ SubprocessRun
    \/ Environment

\* detect calls one after the other, while the search path and the disk change
SpecRepeat == InitRepeat /\ [][NextRepeat]_vars

GatherInfo ==
    /\ \E identity \in Identities, registry \in {None, Some("registry")},
          caller_file \in {None, Some("main.py")} :
            gather_info(identity, registry, caller_file)
    /\ UNCHANGED <<sys, threads, prev>>
PlatformPlatform ==
    /\ \E u \in UnameOutcomes : platform_platform(u)
    /\ UNCHANGED <<sys, threads, prev>>
RegistryDetectAll ==
    /\ registry_detect_all
    /\ UNCHANGED <<sys, threads, prev>>

\* info.summary_lines, of the AppInfo that gather_info returned
SummaryLines ==
    /\ Rest
    /\ op = "gather_info"
    /\ ret # None
    /\ op' = "summary_lines"
    /\ arg' = ret
    /\ ret' = Some(summary_lines(ret[1]))
    /\ raised' = None
    /\ calls' = <<>>
    /\ frame' = Idle
    /\ UNCHANGED <<specs, on_path, files>>
    /\ UNCHANGED Others

NextGather ==
    \/ Register \/ GatherInfo \/ PlatformPlatform \/ RegistryDetectAll \/ SummaryLines
    \/ NextSpec \/ ShutilWhich \/ PathIsFile \/ SubprocessRun
    \/ SearchPath

\* a program that registers tools, gathers its report and prints it
SpecGather == Init /\ [][NextGather]_vars

DetectFrozen ==
    /\ Rest
    /\ op' = "detect_frozen"
    /\ arg' = None
    /\ ret' = Some(detect_frozen)
    /\ raised' = None
    /\ calls' = <<>>
    /\ frame' = Idle
    /\ UNCHANGED <<specs, on_path, files>>
    /\ UNCHANGED Others

ResolveCodeLocation ==
    /\ Rest
    /\ \E caller_file \in {None} \cup {Some(p) : p \in CallerFiles} :
        /\ op' = "resolve_code_location"
        /\ arg' = Some(caller_file)
        /\ ret' = Some(resolve_code_location(caller_file))
    /\ raised' = None
    /\ calls' = <<>>
    /\ frame' = Idle
    /\ UNCHANGED <<specs, on_path, files>>
    /\ UNCHANGED Others

\* an empty registry, under any of the interpreters and bundlers
InitFrozen ==
    /\ specs = <<>>
    /\ on_path = {}
    /\ files = NoFiles
    /\ op = "init"
    /\ arg = None
    /\ ret = None
    /\ raised = None
    /\ calls = <<>>
    /\ frame = Idle
    /\ sys \in SysStates
    /\ platform_cache = None
    /\ threads = NoThreads
    /\ prev = None

NextFrozen ==
    \/ DetectFrozen \/ ResolveCodeLocation
    \/ GatherInfo \/ PlatformPlatform \/ RegistryDetectAll \/ NextSpec

\* the frozen-state functions and gather_info, from source and from a bundle
SpecFrozen == InitFrozen /\ [][NextFrozen]_vars

----------------------------------------------------------------------------
(* detect called from several threads: each call runs the statements of detect and
   _detect_one one at a time, on its own local variables *)

Threads == {"T1", "T2"}

\* the name each thread passes to detect
NameOf(t) == IF t = "T1" THEN "A" ELSE ""

\* subprocess.run was not called
NoRun == [kind |-> "none"]

\* the local variables of a detect call that has not started
Call(name) ==
    [pc |-> "lookup", name |-> name, spec |-> None, path |-> None, i |-> 1,
     out |-> NoRun, ret |-> None, raised |-> None, calls |-> <<>>]

\* thread t's local variables become loc; nothing else changes
Local(t, loc) ==
    /\ threads' = [threads EXCEPT ![t] = loc]
    /\ UNCHANGED <<specs, on_path, files, op, arg, ret, raised, calls, frame, sys,
                     platform_cache, prev>>

\* spec = self._specs[name]
t_lookup(t) ==
    LET loc == threads[t]
    IN  /\ loc.pc = "lookup"
        /\ Local(t, IF loc.name \in RegisteredNames
                    THEN [loc EXCEPT !.spec = Some(lookup(specs, loc.name)), !.pc = "which"]
                    ELSE [loc EXCEPT !.raised = Some("KeyError"), !.pc = "done"])

\* mutant: a path found is kept on the registry object, which the threads share
t_which_shared(t) ==
    LET loc == threads[t]
        found == which(loc.spec[1].command)
    IN  /\ loc.pc = "which"
        /\ threads' = [u \in DOMAIN threads |->
                        IF u = t
                        THEN [loc EXCEPT !.path = found,
                                         !.calls = Append(@, WhichCall(loc.spec[1].command, found)),
                                         !.pc = IF found = None THEN "fallback" ELSE "run"]
                        ELSE IF found = None THEN threads[u]
                        ELSE [threads[u] EXCEPT !.path = found]]
        /\ UNCHANGED <<specs, on_path, files, op, arg, ret, raised, calls, frame, sys,
                     platform_cache, prev>>

\* path = shutil.which(spec.command)
t_which(t) ==
    LET loc == threads[t]
        found == which(loc.spec[1].command)
    IN  /\ loc.pc = "which"
        /\ Local(t, [loc EXCEPT !.path = found,
                                !.calls = Append(@, WhichCall(loc.spec[1].command, found)),
                                !.pc = IF found = None THEN "fallback" ELSE "run"])

\* one turn of the fallback loop, or the return of not_found when the loop is over
t_is_file(t) ==
    LET loc == threads[t]
        fallback_paths == loc.spec[1].fallback_paths
    IN  /\ loc.pc = "fallback"
        /\ IF loc.i > Len(fallback_paths)
           THEN Local(t, [loc EXCEPT !.ret = Some(ToolResult(loc.spec[1].name, None, None,
                                                             "not_found")),
                                     !.pc = "done"])
           ELSE LET candidate == fallback_paths[loc.i]
                    chk == is_file(candidate)
                    seen == [loc EXCEPT !.calls = Append(@, IsFileCall(candidate, chk))]
                IN  IF chk.raises # None
                    THEN Local(t, [seen EXCEPT !.raised = chk.raises, !.pc = "done"])
                    ELSE IF chk.value
                    THEN Local(t, [seen EXCEPT !.path = Some(candidate), !.pc = "run"])
                    ELSE Local(t, [seen EXCEPT !.i = @ + 1])

\* proc = subprocess.run([path, spec.version_flag], ...), which does r
t_run(t, r) ==
    LET loc == threads[t]
    IN  /\ loc.pc = "run"
        /\ Local(t, [loc EXCEPT !.out = r,
                                !.calls = Append(@, RunCall(loc.path[1], loc.spec[1].version_flag,
                                                            loc.spec[1].version_timeout, r)),
                                !.pc = "classify"])

\* the test of returncode and the except clause
t_classify(t) ==
    LET loc == threads[t]
        spec == loc.spec[1]
        r == loc.out
    IN  /\ loc.pc = "classify"
        /\ IF r.kind = "completed"
           THEN IF r.returncode = 0
                THEN Local(t, [loc EXCEPT !.ret = Some(ToolResult(spec.name, loc.path,
                                                  Some(version_of(r.stdout)), "available")),
                                          !.pc = "done"])
                ELSE Local(t, [loc EXCEPT !.ret = Some(ToolResult(spec.name, loc.path, None,
                                                                  "error")),
                                          !.pc = "done"])
           ELSE IF r.kind \in {"TimeoutExpired", "OSError"}
           THEN Local(t, [loc EXCEPT !.ret = Some(ToolResult(spec.name, loc.path, None, "error")),
                                     !.pc = "done"])
           ELSE Local(t, [loc EXCEPT !.raised = Some(r.kind), !.pc = "done"])

Lookup == \E t \in Threads : t_lookup(t)
Which == \E t \in Threads : t_which(t)
IsFile == \E t \in Threads : t_is_file(t)
Run == \E t \in Threads, r \in RunOutcomes(SampleStdout) : t_run(t, r)
Classify == \E t \in Threads : t_classify(t)

\* two specifications registered, and a detect call about to start on each thread
InitConcurrent ==
    /\ specs \in {<<a, e>> : a \in {spec \in ToolSpecs : spec.name = "A"},
                            e \in {spec \in ToolSpecs : spec.name = ""}}
    /\ on_path \in SUBSET Commands
    /\ files \in [FallbackFiles -> FileStates]
    /\ op = "register"
    /\ arg = Some(specs[2])
    /\ ret = None
    /\ raised = None
    /\ calls = <<>>
    /\ frame = Idle
    /\ sys = SourceSys
    /\ platform_cache = None
    /\ threads = [t \in Threads |-> Call(NameOf(t))]
    /\ prev = None

NextConcurrent == Lookup \/ Which \/ IsFile \/ Run \/ Classify

\* detect calls for different names, their statements interleaved in every way
SpecConcurrent == InitConcurrent /\ [][NextConcurrent]_vars

----------------------------------------------------------------------------
(* What the claims speak of *)

\* a detect call of a registered name is over
DetectedRegistered == op = "detect" /\ Rest /\ frame.spec # None

\* the specification that detect ran on
DetectedSpec == frame.spec[1]

\* the Tool Results the last call returned
Returned ==
    IF ~Rest \/ ret = None THEN {}
    ELSE IF op = "detect" THEN {ret[1]}
    ELSE IF op = "detect_all" THEN {ret[1][i] : i \in DOMAIN ret[1]}
    ELSE {}

RunCalls == {i \in DOMAIN calls : calls[i].fn = "run"}
IsFileCalls == {i \in DOMAIN calls : calls[i].fn = "is_file"}
WhichCalls == {i \in DOMAIN calls : calls[i].fn = "which"}

\* the file checks that answered that the candidate is a regular file
Hits == {i \in IsFileCalls : calls[i].out.raises = None /\ calls[i].out.value}

\* the path the lookups of a detection resolved: what the search-path lookup
\* answered, or else the first candidate the file check answered yes for
ResolvedPath ==
    IF calls = <<>> THEN None
    ELSE IF calls[1].fn = "which" /\ calls[1].out # None THEN calls[1].out
    ELSE IF Hits = {} THEN None
    ELSE Some(calls[CHOOSE i \in Hits : \A j \in Hits : i <= j].args[1])

\* the search path and the disk are read by the step that asks: a lookup or a
\* file check made in a step has the answer they give before the step
AnswersAreRead ==
    (Len(calls') = Len(calls) + 1 /\ SubSeq(calls', 1, Len(calls)) = calls) =>
        LET c == calls'[Len(calls')]
        IN  /\ c.fn = "which" =>
                c.out = (IF c.args[1] \in on_path THEN Some(BinPath(c.args[1])) ELSE None)
            /\ c.fn = "is_file" =>
                /\ c.out.value = (files[c.args[1]] = "file")
                /\ c.out.raises = (IF files[c.args[1]] = "denied"
                                   THEN Some("PermissionError") ELSE None)

\* the version invocation ended in one of the three failures the specification names
VersionFailed(out) ==
    \/ out.kind = "completed" /\ out.returncode # 0
    \/ out.kind = "TimeoutExpired"
    \/ out.kind = "OSError"

\* first line of the text, then trimmed
TrimmedFirstLine(text) == strip(split_first(text))

----------------------------------------------------------------------------
(* Claims *)

\* the call was broken off by the dict iterator, another thread having registered
\* a new name meanwhile
BrokenOff == raised = Some("RuntimeError")

\* C1: detect of a registered name and detect_all raise nothing, whatever the
\* search-path lookup, the fallback file check and the version invocation do
\* (a detect_all broken off by a register of another thread is left aside).
C1_NothingEscapes ==
    (Rest /\ ~BrokenOff /\ (op = "detect_all" \/ DetectedRegistered))
        => raised = None /\ ret # None

\* C2: when the resolved executable exits with status 0, the result is available,
\* with the resolved path, and its version is the first line of the captured
\* standard output, trimmed.
C2_VersionIsTrimmedFirstLine ==
    DetectedRegistered =>
        \A i \in RunCalls :
            LET out == calls[i].out
            IN  (out.kind = "completed" /\ out.returncode = 0) =>
                    ret = Some(ToolResult(DetectedSpec.name, ResolvedPath,
                                          Some(TrimmedFirstLine(out.stdout)), "available"))

\* C3: every Tool Result returned by detect or detect_all has a status among
\* available, not_found and error; not_found has neither path nor version,
\* available has both, error has a path and no version.
C3_StatusConsistent ==
    \A res \in Returned :
        /\ res.status \in {"available", "not_found", "error"}
        /\ res.status = "not_found" => res.path = None /\ res.version = None
        /\ res.status = "available" => res.path # None /\ res.version # None
        /\ res.status = "error" => res.path # None /\ res.version = None

C3_Witness ==
    /\ op = "detect_all"
    /\ Rest
    /\ ret # None
    /\ {res.status : res \in Returned} = {"available", "error"}

\* C4: when the search-path lookup does not resolve the command and no fallback
\* path is found to be an existing regular file (the fallback list may be
\* empty), detect has asked for every fallback path and returns the
\* specification's name with status not_found and neither path nor version.
C4_NotFound ==
    (/\ DetectedRegistered
     /\ calls # <<>>
     /\ calls[1].out = None
     /\ \A i \in IsFileCalls : calls[i].out.raises = None /\ ~calls[i].out.value)
        => /\ raised = None
           /\ ret = Some(ToolResult(DetectedSpec.name, None, None, "not_found"))
           /\ Len(calls) = 1 + Len(DetectedSpec.fallback_paths)
           /\ \A i \in DOMAIN DetectedSpec.fallback_paths :
                calls[i + 1].fn = "is_file"
                    /\ calls[i + 1].args = <<DetectedSpec.fallback_paths[i]>>

C4_Witness ==
    /\ DetectedRegistered
    /\ calls[1].out = None
    /\ DetectedSpec.fallback_paths = <<"/opt/b", "/opt/a">>
    /\ Cardinality(IsFileCalls) = 2
    /\ Hits = {}
    /\ ret # None
    /\ ret[1].status = "not_found"

\* C5: when a path was resolved and the version invocation exits non-zero, times
\* out or cannot be launched, detect returns status error with the resolved path
\* and no version, the same for the three causes.
C5_ErrorKeepsPath ==
    DetectedRegistered =>
        \A i \in RunCalls :
            VersionFailed(calls[i].out) =>
                /\ raised = None
                /\ ResolvedPath = Some(calls[i].args[1])
                /\ ret = Some(ToolResult(DetectedSpec.name, ResolvedPath, None, "error"))

C5_Witness ==
    /\ DetectedRegistered
    /\ \E i \in RunCalls : calls[i].out.kind = "TimeoutExpired"
    /\ calls[1].out = None
    /\ ret # None
    /\ ret[1].status = "error"
    /\ ret[1].path = Some("/opt/b")

\* the lookups of a detection that is over: the search path first, the fallback
\* paths only when it gave nothing, in list order and up to the first that is a
\* regular file; the path invoked and the path returned are the path resolved
ResolutionInOrder ==
    LET fallback_paths == DetectedSpec.fallback_paths
    IN  /\ calls # <<>>
        /\ calls[1].fn = "which"
        /\ calls[1].args = <<DetectedSpec.command>>
        /\ calls[1].out # None => IsFileCalls = {}
        /\ \A i \in IsFileCalls :
            /\ i >= 2
            /\ i - 1 <= Len(fallback_paths)
            /\ calls[i].args = <<fallback_paths[i - 1]>>
            /\ \A j \in 2 .. (i - 1) : j \in IsFileCalls /\ j \notin Hits
        /\ \A i \in RunCalls : Some(calls[i].args[1]) = ResolvedPath
        /\ ret # None => ret[1].path = ResolvedPath

\* C6: the resolved path is the search-path lookup's result when the lookup
\* succeeds, and then no fallback path is consulted; otherwise it is the first
\* entry of fallback_paths, in list order, that is an existing regular file
\* when detect asks for it.
C6_ResolutionOrder ==
    [][AnswersAreRead /\ (DetectedRegistered' => ResolutionInOrder')]_vars

C6_Witness ==
    /\ DetectedRegistered
    /\ calls[1].out = None
    /\ DetectedSpec.fallback_paths = <<"/opt/b", "/opt/a">>
    /\ files = [f \in FallbackFiles |-> "file"]
    /\ IsFileCalls = {2}
    /\ ret # None
    /\ ret[1].path = Some("/opt/b")

\* C7: detect_all returns one result per registered specification, the i-th
\* carrying the name of the i-th specification registered, whatever the statuses
\* are; a name not yet present is registered after all the names present, and an
\* empty registry gives the empty sequence.
C7_DetectAllInOrder ==
    [][/\ Len(specs') > Len(specs)
            => /\ SubSeq(specs', 1, Len(specs)) = specs
               /\ Len(specs') = Len(specs) + 1
               /\ specs'[Len(specs')].name \notin RegisteredNames
       /\ (op' = "detect_all" /\ Rest' /\ raised' = None)
            => /\ ret' # None
               /\ Len(ret'[1]) = Len(specs')
               /\ \A i \in DOMAIN specs' : ret'[1][i].name = specs'[i].name]_vars

C7_Witness ==
    /\ op = "detect_all"
    /\ Rest
    /\ ret # None
    /\ Len(ret[1]) = 2
    /\ ret[1][1].name = "A" /\ ret[1][1].status = "error"
    /\ ret[1][2].name = "" /\ ret[1][2].status = "not_found"

\* C8: detect of a name that is not registered raises KeyError, returns no Tool
\* Result, calls neither the lookup, the file check nor the version command, and
\* leaves the registry as it was.
C8_UnknownNameRaises ==
    [][(Rest /\ op' = "detect" /\ arg'[1] \notin RegisteredNames
            /\ UNCHANGED <<on_path, files>>)
            => /\ raised' = Some("KeyError")
               /\ ret' = None
               /\ calls' = <<>>
               /\ specs' = specs
               /\ Rest']_vars

C8_Witness ==
    /\ op = "detect"
    /\ Rest
    /\ arg = Some("nope")
    /\ Len(specs) = 2
    /\ raised = Some("KeyError")
    /\ ret = None

\* a detection that is over has looked for the command of its specification and
\* invoked the path with its version flag and its timeout, and the result has
\* its name
RanOnSpec ==
    /\ calls # <<>>
    /\ calls[1].fn = "which"
    /\ calls[1].args = <<DetectedSpec.command>>
    /\ \A i \in RunCalls :
        calls[i].args[2] = DetectedSpec.version_flag
            /\ calls[i].timeout = DetectedSpec.version_timeout
    /\ ret # None => ret[1].name = DetectedSpec.name

\* C9: register raises nothing, also for the empty name; afterwards the entry
\* under spec.name is the specification just registered, the entries under the
\* other names are as before, and a detect of that name that follows runs the
\* detection of the specification just registered.
C9_RegisterReplaces ==
    [][/\ (Rest /\ op' = "register" /\ UNCHANGED <<on_path, files>>) =>
            /\ raised' = None
            /\ RegisteredNames' = RegisteredNames \cup {arg'[1].name}
            /\ lookup(specs', arg'[1].name) = arg'[1]
            /\ \A n \in RegisteredNames \ {arg'[1].name} :
                    lookup(specs', n) = lookup(specs, n)
       /\ (Rest /\ op = "register" /\ op' = "detect" /\ arg'[1] = arg[1].name) =>
            frame'.spec = Some(arg[1])
       /\ DetectedRegistered' => RanOnSpec']_vars

\* the entry at the first position was registered last: it replaced an earlier one
C9_Witness ==
    /\ op = "register"
    /\ raised = None
    /\ Len(specs) = 2
    /\ arg = Some(specs[1])
    /\ specs[1].name = ""

\* a step of detect or detect_all: the call, or one of its statements
DetectionStep ==
    /\ op' \in {"detect", "detect_all"}
    /\ (op' # op \/ frame' # frame \/ calls' # calls \/ arg' # arg)

\* C10: detect and detect_all leave the registry as it was: the same names in
\* the same order, every field of every specification unchanged, whatever the
\* outcome of the call.
C10_DetectionReadOnly ==
    [][DetectionStep => specs' = specs]_vars

C10_Witness ==
    /\ op = "detect_all"
    /\ Rest
    /\ Len(specs) = 2
    /\ ret # None
    /\ {res.status : res \in Returned} = {"available", "not_found"}

\* C16: one detection invokes the executable at most once: not at all when the
\* lookup and every fallback fail, and otherwise once, the resolved path with
\* the single argument version_flag, as the last thing it does; a timeout, a
\* launch failure or a non-zero exit is followed by no other invocation.
C16_AtMostOneInvocation ==
    DetectedRegistered =>
        /\ Cardinality(RunCalls) <= 1
        /\ ResolvedPath = None => RunCalls = {}
        /\ ResolvedPath # None
                => /\ RunCalls = {Len(calls)}
                   /\ calls[Len(calls)].args = <<ResolvedPath[1], DetectedSpec.version_flag>>

C16_Witness ==
    /\ DetectedRegistered
    /\ calls[1].out = None
    /\ DetectedSpec.fallback_paths = <<"/opt/a", "/opt/b">>
    /\ Cardinality(RunCalls) = 1
    /\ calls[Len(calls)].out.kind = "OSError"
    /\ calls[Len(calls)].args = <<"/opt/a", "-ver">>

\* C18: the registry holds one entry per distinct name; registering a name that
\* is present leaves every name at its position and puts the new specification
\* at the position of that name; detect_all returns one result per distinct
\* name in that order, and after a registration the result at the position of
\* the registered name is the detection of the specification just registered.
C18_ReRegisterKeepsPosition ==
    [][/\ \A i, j \in DOMAIN specs' : specs'[i].name = specs'[j].name => i = j
       /\ (Rest /\ op' = "register" /\ arg'[1].name \in RegisteredNames
                /\ UNCHANGED <<on_path, files>>)
            => /\ Len(specs') = Len(specs)
               /\ \A i \in DOMAIN specs : specs'[i].name = specs[i].name
               /\ specs'[IndexOf(specs, arg'[1].name)] = arg'[1]
       /\ (specs' # specs /\ Len(specs') = Len(specs))
            => \A i \in DOMAIN specs : specs'[i].name = specs[i].name
       /\ (op' = "detect_all" /\ Rest' /\ raised' = None)
            => /\ Len(ret'[1]) = Cardinality(RegisteredNames')
               /\ \A i \in DOMAIN specs' : ret'[1][i].name = specs'[i].name
       /\ (frame.pc = "next" /\ frame'.pc = "which")
            => frame'.spec = Some(specs[frame.k])
       /\ (op' = "detect_all" /\ frame.pc = "which" /\ frame'.pc # "which")
            => calls'[Len(calls) + 1] = WhichCall(frame.spec[1].command,
                                                  which(frame.spec[1].command))]_vars

\* the first entry was registered last, so it replaced an entry of the same name
C18_Witness ==
    /\ op = "register"
    /\ Len(specs) = 2
    /\ arg = Some(specs[1])
    /\ specs[1].name = "A"
    /\ specs[1].command = "b"
    /\ specs[2].name = ""

\* the result the answers of its calls give a detection
ExpectedResult ==
    IF \E i \in IsFileCalls : calls[i].out.raises # None THEN None
    ELSE IF ResolvedPath = None
    THEN Some(ToolResult(DetectedSpec.name, None, None, "not_found"))
    ELSE IF RunCalls = {} THEN None
    ELSE LET out == calls[CHOOSE i \in RunCalls : TRUE].out
         IN  IF out.kind = "completed" /\ out.returncode = 0
             THEN Some(ToolResult(DetectedSpec.name, ResolvedPath,
                                  Some(version_of(out.stdout)), "available"))
             ELSE IF VersionFailed(out)
             THEN Some(ToolResult(DetectedSpec.name, ResolvedPath, None, "error"))
             ELSE None

\* C17: nothing is cached: a detect call that follows an earlier detect call
\* searches the path again and returns the result the environment of its own
\* time determines, whatever the earlier call returned.
C17_NoCaching ==
    [][/\ AnswersAreRead
       /\ (DetectedRegistered /\ prev # None)' =>
            /\ calls' # <<>>
            /\ calls'[1].fn = "which"
            /\ calls'[1].args = <<DetectedSpec'.command>>
            /\ ret' = ExpectedResult']_vars

C17_Witness ==
    /\ DetectedRegistered
    /\ prev # None
    /\ prev[1].arg = arg
    /\ prev[1].ret # None
    /\ prev[1].ret[1].status = "available"
    /\ ret # None
    /\ ret[1].status = "not_found"

\* C11: detect calls for different registered names that run at the same time,
\* with no register call running, leave the registry as it is, and each ends
\* with the result, the exception and the calls it has when run alone in the
\* same environment.
C11_ConcurrentDetectSafe ==
    [][/\ specs' = specs
       /\ \A t \in DOMAIN threads' :
            threads'[t].pc = "done" =>
                Outcome(threads'[t].ret, threads'[t].raised, threads'[t].calls)
                    = _detect_one(lookup(specs, threads'[t].name), threads'[t].out)]_vars

\* one call has returned an available tool while the other is between its
\* invocation, which timed out, and its return
C11_Witness ==
    /\ threads # NoThreads
    /\ threads["T1"].pc = "done"
    /\ threads["T1"].ret # None
    /\ threads["T1"].ret[1].status = "available"
    /\ threads["T2"].pc = "classify"
    /\ threads["T2"].out.kind = "TimeoutExpired"

\* C12: gather_info with a registry ends as the registry's detect_all does in
\* the same environment: its tools list is detect_all's list, result for
\* result and in the same order, one search-path lookup per entry; without a
\* registry the tools list is empty and no tool is looked for; and the identity
\* returned is the identity passed in.
C12_ToolsAreDetectAll ==
    (op = "gather_info" /\ Rest) =>
        /\ arg[1].registry = None
            => /\ ret # None
               /\ ret[1].tools = <<>>
               /\ \A i \in DOMAIN calls : calls[i] \in {UnameCall(u) : u \in UnameOutcomes}
        /\ (arg[1].registry # None /\ ret # None)
            => /\ ret[1].tools = frame.results
               /\ Len(ret[1].tools) = Len(specs)
               /\ \A i \in DOMAIN specs : ret[1].tools[i].name = specs[i].name
               /\ Cardinality(WhichCalls) = Len(specs)
        /\ ret # None => ret[1].identity = arg[1].identity

\* a registry of two was given, and the report holds an available tool and
\* a tool that was not found, in registration order
C12_Witness ==
    /\ op = "gather_info"
    /\ Rest
    /\ arg[1].registry # None
    /\ ret # None
    /\ Len(ret[1].tools) = 2
    /\ ret[1].tools[1].name = "A" /\ ret[1].tools[1].status = "available"
    /\ ret[1].tools[2].name = "" /\ ret[1].tools[2].status = "not_found"
    /\ ret[1].identity.short_name = "MA"

\* the number of lines summary_lines gives to the identity and the execution
HeaderCount(ident) ==
    7 + (IF ident.version # "" THEN 1 ELSE 0)
      + (IF ident.commit_date # "" THEN 1 ELSE 0)
      + (IF ident.description # "" THEN 1 ELSE 0)

\* the line the specification gives a Tool Result of the registry
StatusLine(tool) ==
    IF tool.status = "available"
    THEN "  " \o tool.name \o ":  v" \o join(tool.version[1]) \o "  (" \o tool.path[1] \o ")"
    ELSE IF tool.status = "error"
    THEN "  " \o tool.name \o ":  found but version unavailable  (" \o tool.path[1] \o ")"
    ELSE "  " \o tool.name \o ":  not found"

\* summary_lines gives, after the identity and execution lines, one line per
\* tool in the order of the tools list, each the line of its status
SummaryLinesFollowStatus ==
    op = "summary_lines" =>
        LET tools == arg[1].tools
            lines == ret[1]
            n == HeaderCount(arg[1].identity)
        IN  /\ Len(lines) = n + Len(tools)
            /\ lines[n] = "  OS:           " \o arg[1].execution.os_platform
            /\ \A k \in DOMAIN tools : lines[n + k] = StatusLine(tools[k])

\* C13: no tool of the registry keeps the report from being made: gather_info
\* returns whatever the tools do; and summary_lines gives, after the identity
\* and execution lines, exactly one line per tool in the order of the tools
\* list, each the line of its status: name, v<version> and path for available,
\* "found but version unavailable" and path for error, "not found" for
\* not_found.
C13_EveryToolGetsItsLine ==
    /\ (op = "gather_info" /\ Rest /\ ~BrokenOff) => (raised = None /\ ret # None)
    /\ SummaryLinesFollowStatus

\* sys.frozen is set and holds a value that counts as true
FrozenSet == sys.frozen # None /\ bool(sys.frozen[1])

\* C14: detect_frozen reads sys.frozen and sys._MEIPASS: is_frozen is true
\* exactly when sys.frozen is set and truthy; the bundler is PyInstaller when
\* frozen with a _MEIPASS, cx_Freeze when frozen without one, and None exactly
\* when not frozen; meipass is the _MEIPASS value, or None; and gather_info
\* reports "Compiled executable" exactly when frozen, else "Python source".
C14_FrozenClassification ==
    /\ op = "detect_frozen" =>
        /\ ret[1].is_frozen = FrozenSet
        /\ ret[1].bundler = (IF ~FrozenSet THEN None
                             ELSE IF sys.meipass # None THEN Some("PyInstaller")
                             ELSE Some("cx_Freeze"))
        /\ ret[1].meipass = (IF sys.meipass = None THEN None ELSE Some(sys.meipass[1].repr))
    /\ (op = "gather_info" /\ ret # None) =>
        /\ ret[1].execution.is_frozen = FrozenSet
        /\ ret[1].execution.execution_mode
                = (IF FrozenSet THEN "Compiled executable" ELSE "Python source")

\* frozen by a value that is not True, with a _MEIPASS that is the empty string
C14_Witness ==
    /\ op = "detect_frozen"
    /\ sys.frozen = Some(PyStr("console_exe"))
    /\ sys.meipass = Some(PyStr(""))
    /\ ret[1].is_frozen
    /\ ret[1].bundler = Some("PyInstaller")
    /\ ret[1].meipass = Some("")

\* C15: resolve_code_location gives the executable's path whenever the process
\* is frozen, whatever caller_file is; when not frozen, the resolved absolute
\* path of caller_file if one is given, and the interpreter's path if not.
C15_CodeLocation ==
    op = "resolve_code_location" =>
        LET caller_file == arg[1]
        IN  /\ FrozenSet => ret = Some(sys.executable)
            /\ (~FrozenSet /\ caller_file = None) => ret = Some(sys.executable)
            /\ (~FrozenSet /\ caller_file # None)
                => /\ ret = Some(resolve(caller_file[1]))
                   /\ ret[1] \in {Cwd, Cwd \o "/main.py", "/src/main.py"}

\* frozen, and a caller_file was given
C15_Witness ==
    /\ op = "resolve_code_location"
    /\ FrozenSet
    /\ arg[1] = Some("/link/main.py")
    /\ ret = Some("/opt/app/app")

====
